---- MODULE Spec2Model ----
(***************************************************************************)
(* A model of zad2.py: typed tasks (RegularTask, PriorityTask,             *)
(* RecurringTask), the Project that owns them, their dict/JSON             *)
(* serialization and the save/load of the JSON document.                   *)
(*                                                                         *)
(* Python values are modelled as follows.                                  *)
(*   - str: a TLA+ string.  Python orders str lexicographically; the       *)
(*     strings that the model compares are listed in that order in         *)
(*     StrOrder.                                                           *)
(*   - None: the value None below, different from every str of the model.  *)
(*   - datetime: [date, t], t the time of day in clock ticks, UsPerSec     *)
(*     ticks to the second.  strftime("%Y-%m-%d %H:%M:%S") keeps the date  *)
(*     and the whole seconds, [date, sec]; strptime gives t = sec*UsPerSec.*)
(*   - an object: a function from its attribute names to their values, so  *)
(*     that hasattr(o, k) is k \in DOMAIN o and setattr may add a name.    *)
(*   - dict: a function from its keys; d.get(k, v) is Get(d, k, v).        *)
(*   - an exception: the field exc of an operation's outcome.              *)
(***************************************************************************)
EXTENDS Integers, Sequences, FiniteSets, TLC

VARIABLES
    name,          \* Project.name
    current_date,  \* Project.current_date, a datetime
    tasks,         \* Project.tasks, a sequence of task objects
    clock,         \* what datetime.now() reads: ticks since midnight of Today
    fs,            \* the file system: path -> Missing or the stored document
    last           \* the last operation called: its arguments, the exception
                   \* it raised and, where recorded, the Project before it

vars == <<name, current_date, tasks, clock, fs, last>>

---------------------------------------------------------------------------
(* Bounds of the model *)

MaxTasks == 3
MaxSerialTasks == 2
MaxClock == 2
UsPerSec == 2

---------------------------------------------------------------------------
(* Values *)

None == "<None>"
\* what open() finds at a path that holds no file
Missing == [errno |-> "ENOENT"]

\* a call that raised returns nothing
Nothing == [raised |-> TRUE]

Today == "2024-06-15"
Dates == {"2024-06-01", "2024-06-15", "2024-06-20"}

\* The strings the program compares with <, in Python's (lexicographic) order.
StrOrder == <<"", "2024-06-01", "2024-06-15", "2024-06-20", "9999-12-31">>

StrRank(s) == CHOOSE i \in 1..Len(StrOrder) : StrOrder[i] = s

StrLt(a, b) == StrRank(a) < StrRank(b)

\* bool(v) for a value that is None or a str
Truthy(v) == v # None /\ v # ""

Get(d, k, default) == IF k \in DOMAIN d THEN d[k] ELSE default

EmptyDict == <<>>

\* datetime.__lt__
DtLt(a, b) == StrLt(a.date, b.date) \/ (a.date = b.date /\ a.t < b.t)

\* datetime.now()
now(c) == [date |-> Today, t |-> c]

\* datetime.strptime(s, "%Y-%m-%d")
strptime_date(s) == [date |-> s, t |-> 0]

\* dt.strftime("%Y-%m-%d")
strftime_date(dt) == dt.date

\* dt.strftime("%Y-%m-%d %H:%M:%S")
strftime_seconds(dt) == [date |-> dt.date, sec |-> dt.t \div UsPerSec]

\* datetime.strptime(s, "%Y-%m-%d %H:%M:%S")
strptime_seconds(s) == [date |-> s.date, t |-> s.sec * UsPerSec]

\* str.upper() on the priorities the model enters
upper(s) ==
    CASE s = "high" -> "HIGH"
      [] s = "medium" -> "MEDIUM"
      [] s = "low" -> "LOW"
      [] s = "urgent" -> "URGENT"
      [] OTHER -> s

---------------------------------------------------------------------------
(* Task and its subclasses *)

STATUS == <<"pending", "in progress", "done">>

\* Task.registry after the three class statements have run
registry == {"RegularTask", "PriorityTask", "RecurringTask"}

PRIORITY_ORDER == [HIGH |-> 3, MEDIUM |-> 2, LOW |-> 1]

BaseKeys == {"title", "description", "status", "created"}

\* Task.__init__
Task(cls, title, description, status, c) ==
    [cls |-> cls, title |-> title, description |-> description,
     status |-> status, created |-> now(c)]

\* obj with attribute k set to v (setattr, or an assignment in __init__)
SetAttr(obj, k, v) ==
    [a \in DOMAIN obj \cup {k} |-> IF a = k THEN v ELSE obj[a]]

RegularTask(title, description, status, deadline, c) ==
    SetAttr(Task("RegularTask", title, description, status, c),
            "deadline", deadline)

PriorityTask(title, description, status, priority, c) ==
    SetAttr(Task("PriorityTask", title, description, status, c),
            "priority", upper(priority))

RecurringTask(title, description, status, interval_days, start_date, c) ==
    SetAttr(SetAttr(Task("RecurringTask", title, description, status, c),
                    "interval_days", interval_days),
            "start_date",
            IF Truthy(start_date) THEN start_date ELSE strftime_date(now(c)))

StatusIndex(s) == CHOOSE i \in 1..Len(STATUS) : STATUS[i] = s

\* Variant: next_status without the test for the last status, wrapping round.
next_status_wrap(t) ==
    [t EXCEPT !.status = STATUS[(StatusIndex(t.status) % Len(STATUS)) + 1]]

\* Task.next_status
next_status(t) ==
    LET i == StatusIndex(t.status)
    IN  IF i < Len(STATUS) THEN [t EXCEPT !.status = STATUS[i + 1]] ELSE t

\* Task.to_dict
Task_to_dict(t) ==
    [task_type |-> t.cls,
     kwargs |-> [title |-> t.title, description |-> t.description,
                 status |-> t.status,
                 created |-> strftime_seconds(t.created)]]

\* {**d, k: v} and d[k] = v
DictSet(d, k, v) == [a \in DOMAIN d \cup {k} |-> IF a = k THEN v ELSE d[a]]

\* t.to_dict(), dispatched on the class of t
to_dict(t) ==
    CASE t.cls = "RegularTask" ->
           LET data == Task_to_dict(t)
           IN  [data EXCEPT !.kwargs = DictSet(data.kwargs, "deadline", t.deadline)]
      [] t.cls = "PriorityTask" ->
           DictSet(Task_to_dict(t), "priority", t.priority)
      [] t.cls = "RecurringTask" ->
           DictSet(DictSet(Task_to_dict(t), "interval_days", t.interval_days),
                   "start_date", t.start_date)

\* task_class(title=..., description=..., status=...): the other parameters
\* take their defaults
Construct(cls, title, description, status, c) ==
    CASE cls = "RegularTask" -> RegularTask(title, description, status, None, c)
      [] cls = "PriorityTask" -> PriorityTask(title, description, status, "MEDIUM", c)
      [] cls = "RecurringTask" -> RecurringTask(title, description, status, 7, None, c)

RECURSIVE SetAttrs(_, _, _)
\* the loop of from_dict over kwargs.items()
SetAttrs(obj, kwargs, keys) ==
    IF keys = {} THEN obj
    ELSE LET k == CHOOSE k \in keys : TRUE
         IN  SetAttrs(SetAttr(obj, k, kwargs[k]), kwargs, keys \ {k})

\* Variant: from_dict that builds a RegularTask for a type it does not know.
from_dict_fallback(data, c) ==
    LET kwargs == Get(data, "kwargs", EmptyDict)
        cls == IF data.task_type \in registry THEN data.task_type ELSE "RegularTask"
        obj == Construct(cls, Get(kwargs, "title", ""),
                         Get(kwargs, "description", ""),
                         Get(kwargs, "status", "pending"), c)
    IN  [exc |-> "none", obj |-> SetAttrs(obj, kwargs, DOMAIN kwargs \ BaseKeys)]

\* Task.from_dict, called at clock c: [exc, obj]
from_dict(data, c) ==
    IF data.task_type \notin registry
    THEN [exc |-> "ValueError", obj |-> Nothing]
    ELSE LET kwargs == Get(data, "kwargs", EmptyDict)
             obj == Construct(data.task_type, Get(kwargs, "title", ""),
                              Get(kwargs, "description", ""),
                              Get(kwargs, "status", "pending"), c)
             set == SetAttrs(obj, kwargs, DOMAIN kwargs \ BaseKeys)
         IN  [exc |-> "none",
              obj |-> IF "created" \in DOMAIN data
                      THEN [set EXCEPT !.created = strptime_seconds(data.created)]
                      ELSE set]

---------------------------------------------------------------------------
(* Project: the functions of its methods on P = [name, current_date, tasks] *)

\* Project.__init__ at clock c
Project(n, c) == [name |-> n, current_date |-> now(c), tasks |-> <<>>]

\* Project.set_date with a str argument
set_date_str(P, s) == [P EXCEPT !.current_date = strptime_date(s)]

\* Project.set_date with a datetime argument
set_date_dt(P, dt) == [P EXCEPT !.current_date = dt]

\* Project.add_task
add_task(P, t) == [P EXCEPT !.tasks = Append(P.tasks, t)]

\* Variant: the condition with <= for <.
overdue_inclusive(t, cd) ==
    /\ t.cls = "RegularTask"
    /\ Truthy(t.deadline)
    /\ t.status # "done"
    /\ ~DtLt(cd, strptime_date(t.deadline))

\* the condition under which the loop of get_overdue_tasks appends t
overdue(t, cd) ==
    /\ t.cls = "RegularTask"
    /\ Truthy(t.deadline)
    /\ t.status # "done"
    /\ DtLt(strptime_date(t.deadline), cd)

RECURSIVE OverdueLoop(_, _)
OverdueLoop(ts, cd) ==
    IF ts = <<>> THEN <<>>
    ELSE (IF overdue(Head(ts), cd) THEN <<Head(ts)>> ELSE <<>>)
         \o OverdueLoop(Tail(ts), cd)

\* Project.get_overdue_tasks
get_overdue_tasks(P) == OverdueLoop(P.tasks, P.current_date)

\* Variant of the loop below without its return.
RECURSIVE SetAllStatus(_, _, _)
SetAllStatus(ts, title, status) ==
    IF ts = <<>> THEN <<>>
    ELSE <<IF Head(ts).title = title
           THEN [Head(ts) EXCEPT !.status = status] ELSE Head(ts)>>
         \o SetAllStatus(Tail(ts), title, status)

RECURSIVE SetFirstStatus(_, _, _)
\* the loop of mark_task_done and mark_task_in_progress: it returns at the
\* first task with the title
SetFirstStatus(ts, title, status) ==
    IF ts = <<>> THEN <<>>
    ELSE IF Head(ts).title = title
         THEN <<[Head(ts) EXCEPT !.status = status]>> \o Tail(ts)
         ELSE <<Head(ts)>> \o SetFirstStatus(Tail(ts), title, status)

\* Variant: mark_task_done without the return in its loop.
mark_task_done_every(P, title) ==
    [P EXCEPT !.tasks = SetAllStatus(P.tasks, title, "done")]

\* Project.mark_task_done
mark_task_done(P, title) ==
    [P EXCEPT !.tasks = SetFirstStatus(P.tasks, title, "done")]

\* Project.mark_task_in_progress
mark_task_in_progress(P, title) ==
    [P EXCEPT !.tasks = SetFirstStatus(P.tasks, title, "in progress")]

\* the sort keys of sort_tasks
KeyDeadline(t) == Get(t, "deadline", "9999-12-31")

KeyPriority(t) == 0 - Get(PRIORITY_ORDER, Get(t, "priority", ""), 0)

\* key(a) < key(b) for the criterion; Task.__lt__ for the default
Less(criterion, a, b) ==
    CASE criterion = "deadline" -> StrLt(KeyDeadline(a), KeyDeadline(b))
      [] criterion = "priority" -> KeyPriority(a) < KeyPriority(b)
      [] OTHER -> DtLt(a.created, b.created)

RECURSIVE Insert(_, _, _)
\* x goes before the first element greater than it: equal keys keep their order
Insert(criterion, s, x) ==
    IF s = <<>> THEN <<x>>
    ELSE IF Less(criterion, x, Head(s)) THEN <<x>> \o s
    ELSE <<Head(s)>> \o Insert(criterion, Tail(s), x)

\* Variant of Insert: x goes before the elements equal to it.
RECURSIVE InsertFirst(_, _, _)
InsertFirst(criterion, s, x) ==
    IF s = <<>> THEN <<x>>
    ELSE IF ~Less(criterion, Head(s), x) THEN <<x>> \o s
    ELSE <<Head(s)>> \o InsertFirst(criterion, Tail(s), x)

\* Variant: a sort that is not stable.
RECURSIVE UnstableSort(_, _)
UnstableSort(criterion, s) ==
    IF s = <<>> THEN <<>>
    ELSE InsertFirst(criterion, UnstableSort(criterion, SubSeq(s, 1, Len(s) - 1)),
                     s[Len(s)])

RECURSIVE StableSort(_, _)
\* list.sort: a stable sort
StableSort(criterion, s) ==
    IF s = <<>> THEN <<>>
    ELSE Insert(criterion, StableSort(criterion, SubSeq(s, 1, Len(s) - 1)),
                s[Len(s)])

Injections(n) == {p \in [1..n -> 1..n] : \A i, j \in 1..n : p[i] = p[j] => i = j}

Rearrangements(s) == {[i \in 1..Len(s) |-> s[p[i]]] : p \in Injections(Len(s))}

\* Comparing None with a str or with None raises TypeError; a sort of two or
\* more elements compares each of them at least once.
SortRaises(criterion, s) ==
    /\ criterion = "deadline"
    /\ Len(s) >= 2
    /\ \E i \in 1..Len(s) : KeyDeadline(s[i]) = None

\* Variant: sort_tasks over a sort that is not stable.
sort_tasks_unstable(ts, criterion) ==
    IF SortRaises(criterion, ts)
    THEN [exc |-> "TypeError", outcomes |-> Rearrangements(ts)]
    ELSE [exc |-> "none", outcomes |-> {UnstableSort(criterion, ts)}]

\* Project.sort_tasks: [exc, outcomes], outcomes the lists it may leave.  A
\* sort that raises leaves the list in some order of its elements.
sort_tasks(ts, criterion) ==
    IF SortRaises(criterion, ts)
    THEN [exc |-> "TypeError", outcomes |-> Rearrangements(ts)]
    ELSE [exc |-> "none", outcomes |-> {StableSort(criterion, ts)}]

---------------------------------------------------------------------------
(* Serialization of the Project, save and load *)

\* json.dumps followed by json.loads gives back the dict it was given: its
\* values are str, int, None, dict and list.  A document is that dict.

\* the dict that to_json dumps, and that save dumps to the file
Document(P) ==
    [name |-> P.name,
     current_date |-> strftime_seconds(P.current_date),
     tasks |-> [i \in 1..Len(P.tasks) |-> to_dict(P.tasks[i])]]

\* Project.to_json
to_json(P) == Document(P)

\* [Task.from_dict(d) for d in entries]: the first entry that raises ends it
from_dict_each(entries, c) ==
    LET r == [i \in 1..Len(entries) |-> from_dict(entries[i], c)]
    IN  IF \E i \in 1..Len(entries) : r[i].exc # "none"
        THEN [exc |-> "ValueError", objs |-> <<>>]
        ELSE [exc |-> "none", objs |-> [i \in 1..Len(entries) |-> r[i].obj]]

\* Project.from_json, called at clock c: [exc, project]
from_json(doc, c) ==
    LET P0 == Project(Get(doc, "name", "Unnamed Project"), c)
        P1 == IF "current_date" \in DOMAIN doc
              THEN [P0 EXCEPT !.current_date = strptime_seconds(doc.current_date)]
              ELSE P0
        r == from_dict_each(Get(doc, "tasks", <<>>), c)
    IN  IF r.exc # "none"
        THEN [exc |-> r.exc, project |-> Nothing]
        ELSE [exc |-> "none", project |-> [P1 EXCEPT !.tasks = r.objs]]

\* what Project.save writes to the file
save(P) == Document(P)

\* Variant: load that empties the collection when the file is missing.
load_reset(P, file, c) ==
    IF file = Missing
    THEN [exc |-> "none", project |-> [P EXCEPT !.tasks = <<>>]]
    ELSE [exc |-> "none", project |-> P]

\* Project.load of a path whose content is file, called at clock c:
\* [exc, project], project the state the call leaves
load(P, file, c) ==
    IF file = Missing
    THEN [exc |-> "none", project |-> P]
    ELSE LET P1 == [P EXCEPT !.name = Get(file, "name", P.name)]
             P2 == IF "current_date" \in DOMAIN file
                   THEN [P1 EXCEPT !.current_date = strptime_seconds(file.current_date)]
                   ELSE P1
             r == from_dict_each(Get(file, "tasks", <<>>), c)
         IN  IF r.exc # "none"
             THEN [exc |-> r.exc, project |-> P2]
             ELSE [exc |-> "none", project |-> [P2 EXCEPT !.tasks = r.objs]]

---------------------------------------------------------------------------
(* The state machine *)

\* the Project object of main()
Self == [name |-> name, current_date |-> current_date, tasks |-> tasks]

Becomes(P) ==
    /\ name' = P.name
    /\ current_date' = P.current_date
    /\ tasks' = P.tasks

DefaultPath == "tasks.json"
Paths == {DefaultPath, "brak.json"}

InitAt(clocks) ==
    /\ clock \in clocks
    /\ name = "Moje zadania"
    /\ current_date = now(clock)
    /\ tasks = <<>>
    /\ fs = [p \in Paths |-> Missing]
    /\ last = [op |-> "Project", exc |-> "none"]

\* time passes
Tick ==
    /\ clock < MaxClock
    /\ clock' = clock + 1
    /\ last' = [op |-> "tick", exc |-> "none"]
    /\ UNCHANGED <<name, current_date, tasks, fs>>

AddTask(t, max) ==
    /\ Len(tasks) < max
    /\ Becomes(add_task(Self, t))
    /\ last' = [op |-> "add_task", exc |-> "none"]
    /\ UNCHANGED <<clock, fs>>

SetDateStr(s) ==
    /\ Becomes(set_date_str(Self, s))
    /\ last' = [op |-> "set_date", exc |-> "none"]
    /\ UNCHANGED <<clock, fs>>

SetDateNow ==
    /\ Becomes(set_date_dt(Self, now(clock)))
    /\ last' = [op |-> "set_date", exc |-> "none"]
    /\ UNCHANGED <<clock, fs>>

MarkTaskDone(title) ==
    /\ Becomes(mark_task_done(Self, title))
    /\ last' = [op |-> "mark_task_done", title |-> title, exc |-> "none",
                before |-> Self]
    /\ UNCHANGED <<clock, fs>>

MarkTaskInProgress(title) ==
    /\ Becomes(mark_task_in_progress(Self, title))
    /\ last' = [op |-> "mark_task_in_progress", title |-> title, exc |-> "none",
                before |-> Self]
    /\ UNCHANGED <<clock, fs>>

\* t.next_status() on the task at position i
NextStatus(i) ==
    /\ i \in 1..Len(tasks)
    /\ tasks' = [tasks EXCEPT ![i] = next_status(tasks[i])]
    /\ last' = [op |-> "next_status", index |-> i, exc |-> "none",
                before |-> Self]
    /\ UNCHANGED <<name, current_date, clock, fs>>

SortTasks(criterion) ==
    LET r == sort_tasks(tasks, criterion)
    IN  /\ tasks' \in r.outcomes
        /\ last' = [op |-> "sort_tasks", criterion |-> criterion, exc |-> r.exc,
                    before |-> Self]
        /\ UNCHANGED <<name, current_date, clock, fs>>

Save ==
    /\ fs' = [fs EXCEPT ![DefaultPath] = save(Self)]
    /\ last' = [op |-> "save", exc |-> "none"]
    /\ UNCHANGED <<name, current_date, tasks, clock>>

Load(path) ==
    LET r == load(Self, fs[path], clock)
    IN  /\ Becomes(r.project)
        /\ last' = [op |-> "load", path |-> path, exc |-> r.exc,
                    before |-> Self]
        /\ UNCHANGED <<clock, fs>>

\* Another program rewrites the stored document: an entry gets a type that no
\* class of this program has.
EditTaskType(i) ==
    /\ fs[DefaultPath] # Missing
    /\ i \in 1..Len(fs[DefaultPath].tasks)
    /\ fs' = [fs EXCEPT ![DefaultPath].tasks[i].task_type = "Bogus"]
    /\ last' = [op |-> "edit", exc |-> "none"]
    /\ UNCHANGED <<name, current_date, tasks, clock>>

\* Another program rewrites the stored document: the project gets a new name.
EditName ==
    /\ fs[DefaultPath] # Missing
    /\ fs' = [fs EXCEPT ![DefaultPath].name = "Inny projekt"]
    /\ last' = [op |-> "edit", exc |-> "none"]
    /\ UNCHANGED <<name, current_date, tasks, clock>>

---------------------------------------------------------------------------
(* Specifications.  Each draws the tasks that are added from its own set. *)

Titles == {"a", "b"}

\* Status changes: tasks of two titles, duplicates allowed.
StatusTasks(c) ==
    {RegularTask(ti, "", "pending", None, c) : ti \in Titles}
    \cup {PriorityTask(ti, "", "pending", "MEDIUM", c) : ti \in Titles}

NextS ==
    \/ \E t \in StatusTasks(clock) : AddTask(t, MaxTasks)
    \/ \E ti \in Titles : MarkTaskDone(ti)
    \/ \E ti \in Titles : MarkTaskInProgress(ti)
    \/ \E i \in 1..MaxTasks : NextStatus(i)

SpecStatus == InitAt({0}) /\ [][NextS]_vars

\* Overdue tasks: every kind of deadline, open and done, and a PriorityTask
\* that from_dict gave a deadline attribute.
OverdueTasks(c) ==
    {RegularTask("a", "", st, d, c) :
        st \in {"pending", "done"}, d \in {None, ""} \cup Dates}
    \cup {PriorityTask("a", "", "pending", "high", c),
          RecurringTask("a", "", "pending", 7, "2024-06-01", c),
          from_dict([task_type |-> "PriorityTask",
                     kwargs |-> [title |-> "a", deadline |-> "2024-06-01"]],
                    c).obj}

NextO ==
    \/ \E t \in OverdueTasks(clock) : AddTask(t, MaxTasks)
    \/ \E d \in Dates : SetDateStr(d)
    \/ SetDateNow

SpecOverdue == InitAt(0..MaxClock) /\ [][NextO]_vars

\* Sorting: every priority, one not in PRIORITY_ORDER, every kind of deadline.
SortedTasks(c) ==
    {PriorityTask("a", "", "pending", p, c) : p \in {"high", "MEDIUM", "low", "urgent"}}
    \cup {PriorityTask("b", "", "pending", "medium", c)}
    \cup {RegularTask("a", "", "pending", d, c) : d \in {None, "", "2024-06-01", "2024-06-20"}}
    \cup {RegularTask("b", "", "pending", "2024-06-01", c),
          RecurringTask("a", "", "pending", 7, None, c)}

Criteria == {"created", "deadline", "priority"}

NextT ==
    \/ \E t \in SortedTasks(clock) : AddTask(t, MaxTasks)
    \/ \E cr \in Criteria : SortTasks(cr)

SpecSort == InitAt({0}) /\ [][NextT]_vars

\* Sorting by priority: every priority, one not in PRIORITY_ORDER, tasks
\* without the attribute, and two tasks of one priority that differ.
PriorityTasks(c) ==
    {PriorityTask("a", "", "pending", p, c) : p \in {"high", "MEDIUM", "low", "urgent"}}
    \cup {PriorityTask("b", "", "pending", "medium", c),
          RegularTask("a", "", "pending", "2024-06-01", c),
          RecurringTask("a", "", "pending", 7, None, c)}

NextP ==
    \/ \E t \in PriorityTasks(clock) : AddTask(t, MaxTasks)
    \/ \E cr \in {"priority", "created"} : SortTasks(cr)

SpecPriority == InitAt({0}) /\ [][NextP]_vars

\* Serialization: the operations of the menu on tasks of the three classes.
SerialTasks(c) ==
    {RegularTask("a", "opis", "pending", d, c) : d \in {None, "2024-06-01"}}
    \cup {PriorityTask("a", "opis", "pending", p, c) : p \in {"high", "MEDIUM"}}
    \cup {RecurringTask("a", "opis", "pending", 7, None, c),
          RecurringTask("a", "opis", "pending", 3, "2024-06-01", c)}

Next ==
    \/ Tick
    \/ \E t \in SerialTasks(clock) : AddTask(t, MaxSerialTasks)
    \/ \E d \in Dates : SetDateStr(d)
    \/ MarkTaskDone("a")
    \/ MarkTaskInProgress("a")
    \/ \E cr \in Criteria : SortTasks(cr)

Spec == InitAt({0}) /\ [][Next]_vars

\* The stored document: saved, rewritten by another program, loaded.
FileTasks(c) ==
    {RegularTask("a", "", "pending", "2024-06-01", c),
     PriorityTask("b", "", "pending", "high", c)}

NextF ==
    \/ \E t \in FileTasks(clock) : AddTask(t, MaxSerialTasks)
    \/ \E d \in Dates : SetDateStr(d)
    \/ Save
    \/ \E p \in Paths : Load(p)
    \/ \E i \in 1..MaxSerialTasks : EditTaskType(i)
    \/ EditName

SpecFile == InitAt({0}) /\ [][NextF]_vars

---------------------------------------------------------------------------
(* The claims *)

\* u has the class of t and its title, description, status, created (to the
\* second) and the fields of its class
SameTask(t, u) ==
    /\ u.cls = t.cls
    /\ u.title = t.title
    /\ u.description = t.description
    /\ u.status = t.status
    /\ strftime_seconds(u.created) = strftime_seconds(t.created)
    /\ t.cls = "RegularTask" => u.deadline = t.deadline
    /\ t.cls = "PriorityTask" => u.priority = t.priority
    /\ t.cls = "RecurringTask" =>
          u.interval_days = t.interval_days /\ u.start_date = t.start_date

\* C1: every task of the project, of any class and status, comes back from
\* from_dict(to_dict(t)) with the same class, title, description, status,
\* created (to the second) and class fields.
C1_TaskRoundTrip ==
    \A i \in 1..Len(tasks) :
        LET r == from_dict(to_dict(tasks[i]), clock)
        IN  r.exc = "none" /\ SameTask(tasks[i], r.obj)

\* C2: from_json(to_json(P)) has the name of P, its current_date to the
\* second, and as many tasks, each the same as the task at its position in P.
C2_ProjectRoundTrip ==
    LET r == from_json(to_json(Self), clock)
    IN  /\ r.exc = "none"
        /\ r.project.name = name
        /\ strftime_seconds(r.project.current_date) = strftime_seconds(current_date)
        /\ Len(r.project.tasks) = Len(tasks)
        /\ \A i \in 1..Len(tasks) : SameTask(tasks[i], r.project.tasks[i])

\* the place of a status in [pending, in progress, done]
Position(s) ==
    CASE s = "pending" -> 1 [] s = "in progress" -> 2 [] s = "done" -> 3

\* C3: next_status takes pending to in progress, in progress to done and
\* leaves done; the place of the status never goes down and no other field
\* of the task changes.
C3_NextStatusForward ==
    last.op = "next_status" =>
        LET b == last.before.tasks[last.index]
            a == tasks[last.index]
        IN  /\ b.status = "pending" => a.status = "in progress"
            /\ b.status = "in progress" => a.status = "done"
            /\ b.status = "done" => a.status = "done"
            /\ Position(a.status) >= Position(b.status)
            /\ a = [b EXCEPT !.status = a.status]

\* next_status was called on a task that was done
C3_Witness ==
    /\ last.op = "next_status"
    /\ last.before.tasks[last.index].status = "done"
    /\ tasks[last.index].status = "done"

\* the deadline d, at its midnight, is strictly before the datetime cd
StrictlyBefore(d, cd) ==
    \/ StrRank(d) < StrRank(cd.date)
    \/ d = cd.date /\ 0 < cd.t

\* what the claim says of an overdue task
IsOverdue(t) ==
    /\ t.cls = "RegularTask"
    /\ t.deadline # None /\ t.deadline # ""
    /\ t.status # "done"
    /\ StrictlyBefore(t.deadline, current_date)

InSeq(x, s) == \E i \in 1..Len(s) : s[i] = x

\* C4: get_overdue_tasks returns, in the order of the collection, the
\* RegularTasks that have a non-empty deadline, are not done and whose
\* deadline is strictly before current_date; a task whose deadline equals
\* current_date is not returned, nor is any PriorityTask or RecurringTask.
C4_OverdueFilter ==
    LET r == get_overdue_tasks(Self)
    IN  /\ r = SelectSeq(tasks, IsOverdue)
        /\ \A i \in 1..Len(tasks) :
              (/\ tasks[i].cls = "RegularTask"
               /\ tasks[i].deadline \in Dates
               /\ strptime_date(tasks[i].deadline) = current_date)
              => ~InSeq(tasks[i], r)
        /\ \A i \in 1..Len(r) : r[i].cls = "RegularTask"

\* one task is returned, while the collection also holds a task whose
\* deadline equals current_date and a PriorityTask with a deadline attribute
\* that lies before current_date
C4_Witness ==
    /\ Len(get_overdue_tasks(Self)) = 1
    /\ \E i, j \in 1..Len(tasks) :
          /\ tasks[i].cls = "RegularTask"
          /\ tasks[i].status = "pending"
          /\ tasks[i].deadline \in Dates
          /\ strptime_date(tasks[i].deadline) = current_date
          /\ tasks[j].cls = "PriorityTask"
          /\ "deadline" \in DOMAIN tasks[j]
          /\ StrictlyBefore(tasks[j].deadline, current_date)

\* the rank of the claim: HIGH 3, MEDIUM 2, LOW 1, anything else 0
Rank(t) ==
    IF "priority" \notin DOMAIN t THEN 0
    ELSE CASE t.priority = "HIGH" -> 3
           [] t.priority = "MEDIUM" -> 2
           [] t.priority = "LOW" -> 1
           [] OTHER -> 0

\* after is before reordered by p
ReorderedBy(p, before, after) ==
    /\ Len(after) = Len(before)
    /\ \A i \in 1..Len(after) : after[i] = before[p[i]]

\* C5: sort_tasks("priority") leaves a permutation of the collection in
\* order of non-increasing rank, tasks of equal rank in the order they had.
C5_PrioritySortStable ==
    (last.op = "sort_tasks" /\ last.criterion = "priority") =>
        /\ last.exc = "none"
        /\ \E p \in Injections(Len(tasks)) :
              /\ ReorderedBy(p, last.before.tasks, tasks)
              /\ \A i, j \in 1..Len(tasks) :
                    i < j => /\ Rank(tasks[i]) >= Rank(tasks[j])
                             /\ Rank(tasks[i]) = Rank(tasks[j]) => p[i] < p[j]

\* [MEDIUM, HIGH, MEDIUM] has become [HIGH, MEDIUM(1st), MEDIUM(2nd)]
C5_Witness ==
    /\ last.op = "sort_tasks" /\ last.criterion = "priority"
    /\ Len(tasks) = 3
    /\ LET b == last.before.tasks
       IN  /\ <<Rank(b[1]), Rank(b[2]), Rank(b[3])>> = <<2, 3, 2>>
           /\ b[1] # b[3]
           /\ tasks = <<b[2], b[1], b[3]>>

\* t has a deadline of its own
Explicit(t) == "deadline" \in DOMAIN t /\ t.deadline # None

\* C6: sort_tasks("deadline") completes, whatever the collection, and leaves
\* the tasks with a deadline first, in ascending order of it, and then the
\* tasks without.
C6_DeadlineSort ==
    (last.op = "sort_tasks" /\ last.criterion = "deadline") =>
        /\ last.exc = "none"
        /\ \E p \in Injections(Len(tasks)) : ReorderedBy(p, last.before.tasks, tasks)
        /\ \A i, j \in 1..Len(tasks) :
              i < j => /\ Explicit(tasks[j]) => Explicit(tasks[i])
                       /\ (Explicit(tasks[i]) /\ Explicit(tasks[j])) =>
                             ~StrLt(tasks[j].deadline, tasks[i].deadline)

Unregistered(entry) ==
    entry.task_type \notin {"RegularTask", "PriorityTask", "RecurringTask"}

\* C7: from_dict of a mapping whose type is not registered raises ValueError
\* and returns no task; from_json of a document with such an entry, at any
\* position, raises it too and returns no project.
C7_UnknownTypeRejected ==
    /\ from_dict([task_type |-> "Bogus", kwargs |-> EmptyDict], clock)
          = [exc |-> "ValueError", obj |-> Nothing]
    /\ fs[DefaultPath] # Missing =>
          LET doc == fs[DefaultPath]
          IN  /\ \A i \in 1..Len(doc.tasks) :
                    Unregistered(doc.tasks[i]) =>
                        from_dict(doc.tasks[i], clock)
                            = [exc |-> "ValueError", obj |-> Nothing]
              /\ (\E i \in 1..Len(doc.tasks) : Unregistered(doc.tasks[i])) =>
                    from_json(doc, clock)
                        = [exc |-> "ValueError", project |-> Nothing]

\* the stored document has an entry that resolves and, after it, one that
\* does not
C7_Witness ==
    /\ fs[DefaultPath] # Missing
    /\ Len(fs[DefaultPath].tasks) = 2
    /\ ~Unregistered(fs[DefaultPath].tasks[1])
    /\ Unregistered(fs[DefaultPath].tasks[2])
    /\ from_json(fs[DefaultPath], clock).exc = "ValueError"

\* C8: load of a path that holds no file returns normally and leaves name,
\* current_date and tasks as they were.
C8_LoadMissingFile ==
    (last.op = "load" /\ fs[last.path] = Missing) =>
        /\ last.exc = "none"
        /\ Self = last.before

\* load was called on a missing path by a project that holds tasks and a
\* date that was set
C8_Witness ==
    /\ last.op = "load" /\ fs[last.path] = Missing
    /\ last.exc = "none"
    /\ Len(tasks) = 2
    /\ current_date # now(clock)
    /\ Self = last.before

First(S) == CHOOSE i \in S : \A j \in S : i <= j

\* C9: mark_task_done and mark_task_in_progress set the status of the first
\* task with the title, whatever it was, and change nothing else; with no
\* such task they change nothing.
C9_MarkFirstMatch ==
    last.op \in {"mark_task_done", "mark_task_in_progress"} =>
        LET b == last.before
            status == IF last.op = "mark_task_done" THEN "done" ELSE "in progress"
            M == {i \in 1..Len(b.tasks) : b.tasks[i].title = last.title}
        IN  /\ last.exc = "none"
            /\ name = b.name
            /\ current_date = b.current_date
            /\ Len(tasks) = Len(b.tasks)
            /\ M = {} => tasks = b.tasks
            /\ \A i \in 1..Len(b.tasks) :
                  tasks[i] = IF M # {} /\ i = First(M)
                             THEN [b.tasks[i] EXCEPT !.status = status]
                             ELSE b.tasks[i]

\* mark_task_done has set a pending task to done; a task before it has
\* another title and a task after it, with the same title, is not done
C9_Witness ==
    /\ last.op = "mark_task_done"
    /\ Len(tasks) = 3
    /\ tasks[1].title # last.title
    /\ tasks[2].title = last.title /\ tasks[3].title = last.title
    /\ last.before.tasks[2].status = "pending"
    /\ tasks[2].status = "done"
    /\ tasks[3].status = "pending"

\* C10: a load that raises leaves name, current_date and tasks as they were;
\* a load that returns from an existing file has replaced all three.
C10_LoadAllOrNothing ==
    last.op = "load" =>
        /\ last.exc # "none" => Self = last.before
        /\ (last.exc = "none" /\ fs[last.path] # Missing) =>
              /\ name = Get(fs[last.path], "name", last.before.name)
              /\ current_date = strptime_seconds(fs[last.path].current_date)
              /\ Len(tasks) = Len(fs[last.path].tasks)

====
